---- MODULE Spec2Model ----
(***************************************************************************)
(* Model of the Company commands of src-tauri/src/lib.rs: create_company,  *)
(* get_companies, get_company_by_id, update_company and delete_company,    *)
(* running against the `companies` table declared by get_migrations.       *)
(*                                                                         *)
(* A Rust String is a sequence of Unicode code points.  A command is one   *)
(* or two atomic steps: everything up to and including its first SQL       *)
(* statement (validation is local to the caller), and, for create_company  *)
(* and update_company, the SELECT that fetches the row to return.  Other   *)
(* callers may run between the two steps.                                  *)
(***************************************************************************)
EXTENDS Integers, Sequences, FiniteSets, TLC

(***************************************************************************)
(* Bounds of the model.                                                    *)
(***************************************************************************)
\* number of concurrent callers of the commands
NumCallers == 2
\* largest rowid the AUTOINCREMENT sequence is allowed to reach
MaxId == 2
\* largest value of the wall clock, in whole seconds (CURRENT_TIMESTAMP)
MaxTime == 1
\* number of commands the concurrent callers invoke in one behaviour
MaxCalls == 3

(***************************************************************************)
(* Program constants.                                                      *)
(***************************************************************************)
MaxNameLen == 255
GstLen == 15

(***************************************************************************)
(* Strings: sequences of code points.                                      *)
(***************************************************************************)
\* char::is_whitespace: the Unicode White_Space code points
IsWhitespace(c) ==
    \/ c \in 9..13
    \/ c \in {32, 133, 160, 5760, 8232, 8233, 8239, 8287, 12288}
    \/ c \in 8192..8202

\* char::is_ascii_alphanumeric: 0-9, A-Z, a-z
IsAsciiAlphanumeric(c) == c \in (48..57) \cup (65..90) \cup (97..122)

\* number of bytes of the UTF-8 encoding of one code point
Utf8Len(c) == IF c < 128 THEN 1 ELSE IF c < 2048 THEN 2 ELSE IF c < 65536 THEN 3 ELSE 4

RECURSIVE Utf8Extra(_, _)
\* the bytes beyond the first of the code points of s at the positions in I
Utf8Extra(s, I) ==
    IF I = {} THEN 0
    ELSE LET i == CHOOSE j \in I : TRUE
         IN  (Utf8Len(s[i]) - 1) + Utf8Extra(s, I \ {i})

\* str::len: the length in bytes, one for every code point and the rest for
\* those outside ASCII
StrLen(s) == Len(s) + Utf8Extra(s, {i \in 1..Len(s) : s[i] >= 128})

RECURSIVE TrimStart(_)
TrimStart(s) ==
    IF s = <<>> THEN <<>>
    ELSE IF IsWhitespace(Head(s)) THEN TrimStart(Tail(s)) ELSE s

RECURSIVE TrimEnd(_)
TrimEnd(s) ==
    IF s = <<>> THEN <<>>
    ELSE IF IsWhitespace(s[Len(s)]) THEN TrimEnd(SubSeq(s, 1, Len(s) - 1)) ELSE s

\* str::trim: leading and trailing whitespace removed
Trim(s) == TrimEnd(TrimStart(s))

\* is_valid_gst_format without the check of the characters
GstFormatLengthOnly(gst_no) == StrLen(Trim(gst_no)) = GstLen

\* fn is_valid_gst_format
is_valid_gst_format(gst_no) ==
    LET trimmed == Trim(gst_no)
    IN  /\ StrLen(trimmed) = GstLen
        /\ \A i \in 1..Len(trimmed) : IsAsciiAlphanumeric(trimmed[i])

(***************************************************************************)
(* Data model: struct Company, struct CreateCompany, struct UpdateCompany.  *)
(* An Option<String> is a record [some, v].  A timestamp is the clock's     *)
(* value in whole seconds, the resolution of SQLite's CURRENT_TIMESTAMP.   *)
(***************************************************************************)
None == [some |-> FALSE, v |-> <<>>]
Some(s) == [some |-> TRUE, v |-> s]

\* a CreateCompany or UpdateCompany payload (CreateCompany: every field present)
Payload(name, gst, state) == [company_name |-> name, gst_no |-> gst, state_code |-> state]

NoPayload == Payload(None, None, None)

\* a row of the companies table, as the SELECTs return it into struct Company
Company(id, name, gst, state, created, updated) ==
    [id |-> id, company_name |-> name, gst_no |-> gst, state_code |-> state,
     created_at |-> created, updated_at |-> updated]

NoCompany == Company(0, <<>>, <<>>, <<>>, 0, 0)

(***************************************************************************)
(* Result<_, String> of a command.                                         *)
(***************************************************************************)
Err(msg) == [ok |-> FALSE, err |-> msg, company |-> NoCompany, list |-> <<>>]
OkCompany(c) == [ok |-> TRUE, err |-> "", company |-> c, list |-> <<>>]
OkList(l) == [ok |-> TRUE, err |-> "", company |-> NoCompany, list |-> l]
OkUnit == [ok |-> TRUE, err |-> "", company |-> NoCompany, list |-> <<>>]
NoResult == [ok |-> FALSE, err |-> "", company |-> NoCompany, list |-> <<>>]

(***************************************************************************)
(* Validation of create_company: the first violated rule, "" when none.    *)
(***************************************************************************)
CreateValidate(company) ==
    IF Trim(company.company_name.v) = <<>> THEN "Company name is required"
    ELSE IF StrLen(company.company_name.v) > MaxNameLen
        THEN "Company name must be 255 characters or less"
    ELSE IF Trim(company.gst_no.v) = <<>> THEN "GST number is required"
    ELSE IF ~is_valid_gst_format(company.gst_no.v)
        THEN "GST number must be 15 characters and follow GST format"
    ELSE IF Trim(company.state_code.v) = <<>> THEN "State code is required"
    ELSE ""

(***************************************************************************)
(* The dynamic update query of update_company: the first violated rule, or *)
(* the SET list (update_fields with params: the trimmed supplied fields).  *)
(***************************************************************************)
\* UpdateValidate without the check "update_fields.is_empty()"
UpdateValidateNoEmptyCheck(company) ==
    IF company.company_name.some /\ Trim(company.company_name.v) = <<>>
        THEN "Company name cannot be empty"
    ELSE IF company.company_name.some /\ StrLen(company.company_name.v) > MaxNameLen
        THEN "Company name must be 255 characters or less"
    ELSE IF company.gst_no.some /\ Trim(company.gst_no.v) = <<>>
        THEN "GST number cannot be empty"
    ELSE IF company.gst_no.some /\ ~is_valid_gst_format(company.gst_no.v)
        THEN "GST number must be 15 characters and follow GST format"
    ELSE IF company.state_code.some /\ Trim(company.state_code.v) = <<>>
        THEN "State code cannot be empty"
    ELSE ""

UpdateValidate(company) ==
    IF company.company_name.some /\ Trim(company.company_name.v) = <<>>
        THEN "Company name cannot be empty"
    ELSE IF company.company_name.some /\ StrLen(company.company_name.v) > MaxNameLen
        THEN "Company name must be 255 characters or less"
    ELSE IF company.gst_no.some /\ Trim(company.gst_no.v) = <<>>
        THEN "GST number cannot be empty"
    ELSE IF company.gst_no.some /\ ~is_valid_gst_format(company.gst_no.v)
        THEN "GST number must be 15 characters and follow GST format"
    ELSE IF company.state_code.some /\ Trim(company.state_code.v) = <<>>
        THEN "State code cannot be empty"
    ELSE IF ~company.company_name.some /\ ~company.gst_no.some /\ ~company.state_code.some
        THEN "No fields to update"
    ELSE ""

TrimOpt(o) == IF o.some THEN Some(Trim(o.v)) ELSE None

UpdateParams(company) ==
    Payload(TrimOpt(company.company_name), TrimOpt(company.gst_no),
            TrimOpt(company.state_code))

(***************************************************************************)
(* The companies table (get_migrations) and the SQL statements run on it.  *)
(* A table is a set of rows; sq is the table's entry in sqlite_sequence.   *)
(***************************************************************************)
MaxOf(S) == IF S = {} THEN 0 ELSE CHOOSE m \in S : \A x \in S : x <= m

Rowids(tbl) == {r.id : r \in tbl}

\* id INTEGER PRIMARY KEY without AUTOINCREMENT: one more than the largest rowid
\* the table holds now
NextRowidNoAutoincrement(tbl, sq) == MaxOf(Rowids(tbl)) + 1

\* id INTEGER PRIMARY KEY AUTOINCREMENT: one more than the largest rowid the
\* table has ever held
NextRowid(tbl, sq) == MaxOf(Rowids(tbl) \cup {sq}) + 1

\* gst_no TEXT NOT NULL, without UNIQUE
NoUniqueConstraint(tbl, id, gst) == FALSE

\* gst_no TEXT NOT NULL UNIQUE: another row already holds gst
UniqueViolation(tbl, id, gst) == \E r \in tbl : r.id # id /\ r.gst_no = gst

\* the INSERT with gst_no and state_code bound the wrong way round
SqlInsertSwapped(tbl, sq, name, gst, state, t) ==
    LET rowid == NextRowid(tbl, sq)
    IN  IF UniqueViolation(tbl, rowid, state)
        THEN [ok |-> FALSE, tbl |-> tbl, sq |-> sq, last_insert_rowid |-> 0]
        ELSE [ok |-> TRUE,
              tbl |-> tbl \cup {Company(rowid, name, state, gst, t, t)},
              sq |-> rowid, last_insert_rowid |-> rowid]

\* INSERT INTO companies (company_name, gst_no, state_code) VALUES (?1, ?2, ?3)
\* created_at and updated_at take DEFAULT CURRENT_TIMESTAMP.  A statement that
\* fails its constraint is rolled back whole.
SqlInsert(tbl, sq, name, gst, state, t) ==
    LET rowid == NextRowid(tbl, sq)
    IN  IF UniqueViolation(tbl, rowid, gst)
        THEN [ok |-> FALSE, tbl |-> tbl, sq |-> sq, last_insert_rowid |-> 0]
        ELSE [ok |-> TRUE,
              tbl |-> tbl \cup {Company(rowid, name, gst, state, t, t)},
              sq |-> rowid, last_insert_rowid |-> rowid]

\* the row r after "SET <supplied fields>, updated_at = CURRENT_TIMESTAMP"
SetFields(r, params, t) ==
    [r EXCEPT !.company_name = IF params.company_name.some
                               THEN params.company_name.v ELSE @,
              !.gst_no = IF params.gst_no.some THEN params.gst_no.v ELSE @,
              !.state_code = IF params.state_code.some THEN params.state_code.v ELSE @,
              !.updated_at = t]

\* the UPDATE as one statement per column, with no transaction around them: the
\* columns other than gst_no stay written when gst_no fails its constraint
SqlUpdateColumnwise(tbl, id, params, t) ==
    LET hit == {r \in tbl : r.id = id}
        others == [params EXCEPT !.gst_no = None]
    IN  IF hit = {} THEN [ok |-> TRUE, tbl |-> tbl, rows_affected |-> 0]
        ELSE IF params.gst_no.some /\ UniqueViolation(tbl, id, params.gst_no.v)
        THEN [ok |-> FALSE,
              tbl |-> (tbl \ hit) \cup {SetFields(r, others, t) : r \in hit},
              rows_affected |-> 0]
        ELSE [ok |-> TRUE,
              tbl |-> (tbl \ hit) \cup {SetFields(r, params, t) : r \in hit},
              rows_affected |-> Cardinality(hit)]

\* UPDATE companies SET ... WHERE id = ?
SqlUpdate(tbl, id, params, t) ==
    LET hit == {r \in tbl : r.id = id}
    IN  IF hit = {} THEN [ok |-> TRUE, tbl |-> tbl, rows_affected |-> 0]
        ELSE IF params.gst_no.some /\ UniqueViolation(tbl, id, params.gst_no.v)
        THEN [ok |-> FALSE, tbl |-> tbl, rows_affected |-> 0]
        ELSE [ok |-> TRUE,
              tbl |-> (tbl \ hit) \cup {SetFields(r, params, t) : r \in hit},
              rows_affected |-> Cardinality(hit)]

\* DELETE FROM companies WHERE id = ?1
SqlDelete(tbl, id) ==
    LET hit == {r \in tbl : r.id = id}
    IN  [tbl |-> tbl \ hit, rows_affected |-> Cardinality(hit)]

\* SELECT ... FROM companies WHERE id = ?1
SqlSelectById(tbl, id) == {r \in tbl : r.id = id}

\* the sequences that hold every element of S exactly once
Orderings(S) ==
    {s \in [1..Cardinality(S) -> S] : \A i, j \in 1..Cardinality(S) : i # j => s[i] # s[j]}

\* SELECT ... FROM companies ORDER BY created_at DESC: the results the statement
\* allows.  The order of rows with equal created_at is left to the engine.
SqlSelectOrdered(tbl) ==
    IF tbl = {} THEN {<<>>}
    ELSE {s \in Orderings(tbl) :
            \A i, j \in 1..Cardinality(tbl) : i < j => s[i].created_at >= s[j].created_at}

(***************************************************************************)
(* Inputs of the commands.                                                 *)
(***************************************************************************)
\* "A", "B", " A<tab>", " ", and a name of 256 bytes
NameA == <<65>>
NameB == <<66>>
PadNameA == <<32, 65, 9>>
Blank == <<32>>
LongName == [i \in 1..(MaxNameLen + 1) |-> 120]

\* "27ABCDE1234F1Z5", "29ABCDE1234F1Z5", " 27ABCDE1234F1Z5<newline>", "short",
\* and "27ABCDE1234F1Z-"
Gst1 == <<50, 55, 65, 66, 67, 68, 69, 49, 50, 51, 52, 70, 49, 90, 53>>
Gst2 == <<50, 57, 65, 66, 67, 68, 69, 49, 50, 51, 52, 70, 49, 90, 53>>
PadGst1 == <<32>> \o Gst1 \o <<10>>
ShortGst == <<115, 104, 111, 114, 116>>
DashGst == <<50, 55, 65, 66, 67, 68, 69, 49, 50, 51, 52, 70, 49, 90, 45>>

\* "27", "29" and " 29 "
State27 == <<50, 55>>
State29 == <<50, 57>>
PadState29 == <<32>> \o State29 \o <<32>>

Opt(S) == {None} \cup {Some(x) : x \in S}

Payloads(names, gsts, states) ==
    {Payload(n, g, s) : n \in names, g \in gsts, s \in states}

\* what one caller at a time may send: every combination of absent, well-formed
\* and padded fields, and each malformed field beside a well-formed one
AnyInputs ==
    [create |->
        Payloads({Some(PadNameA)}, {Some(PadGst1), Some(Gst2)},
                 {Some(State27), Some(PadState29)})
        \cup Payloads({Some(Blank), Some(LongName)}, {Some(PadGst1)}, {Some(State27)})
        \cup Payloads({Some(PadNameA)}, {Some(Blank), Some(ShortGst), Some(DashGst)},
                      {Some(State27)})
        \cup Payloads({Some(PadNameA)}, {Some(Gst2)}, {Some(Blank)}),
     update |->
        Payloads(Opt({NameB}), Opt({Gst2}), Opt({PadState29}))
        \cup Payloads({None}, {Some(PadGst1)}, {None})
        \cup Payloads({Some(Blank), Some(LongName)}, {None}, {Some(PadState29)})
        \cup Payloads({Some(NameB)}, {Some(Blank), Some(ShortGst), Some(DashGst)}, {None})
        \cup Payloads({None}, {Some(Gst2)}, {Some(Blank)}),
     \* every id the table can hold, and one it cannot
     id |-> 1..(MaxId + 1)]

\* what concurrent callers send
RaceInputs ==
    [create |-> Payloads({Some(PadNameA)},
                         {Some(ShortGst), Some(PadGst1), Some(Gst2)},
                         {Some(State27)}),
     update |-> Payloads({None}, Opt({Gst2}), Opt({State27, PadState29}))
                    \ {NoPayload},
     id |-> 1..MaxId]

Callers == 1..NumCallers

(***************************************************************************)
(* State.                                                                  *)
(***************************************************************************)
VARIABLES
    companies,        \* the rows of the companies table
    sqlite_sequence,  \* the AUTOINCREMENT high-water mark of the table
    now,              \* the wall clock, in seconds
    pc,               \* per caller: where its command stands
    call,             \* per caller: the command in progress, with its arguments
    company_id,       \* per caller: create_company's company_id (last_insert_rowid)
    wrote,            \* per caller: the id of the row its command in progress
                      \* inserted or updated (0 if none)
    last,             \* the command that returned in the step just taken, if one
                      \* did: caller, call, result, and the id of the row the
                      \* command inserted, updated or deleted (0 if none)
    assigned,         \* the rowids the INSERTs assigned, in order
    mutated,          \* the ids of the rows an UPDATE or DELETE has changed between
                      \* their INSERT and the fetch of the call that inserted them
    returned,         \* the ids the successful create_company calls returned, in order
    created,          \* per row no UPDATE or DELETE has changed since its INSERT:
                      \* what the create_company call got and what it returned
    ncalls            \* the number of commands invoked so far

vars == <<companies, sqlite_sequence, now, pc, call, company_id, wrote, last,
          assigned, mutated, returned, created, ncalls>>

Call(op, id, company) == [op |-> op, id |-> id, company |-> company]

NoCall == Call("none", 0, NoPayload)

Last(p, c, r, w) == [caller |-> p, call |-> c, ret |-> r, wrote |-> w]

NoLast == Last(0, NoCall, NoResult, 0)

\* a create_company call has inserted the row id and not yet fetched it
InFlight(id) == \E q \in Callers : pc[q] = "create_fetch" /\ company_id[q] = id

Init ==
    /\ companies = {}
    /\ sqlite_sequence = 0
    /\ now = 0
    /\ pc = [p \in Callers |-> "idle"]
    /\ call = [p \in Callers |-> NoCall]
    /\ company_id = [p \in Callers |-> 0]
    /\ wrote = [p \in Callers |-> 0]
    /\ last = NoLast
    /\ assigned = <<>>
    /\ mutated = {}
    /\ returned = <<>>
    /\ created = {}
    /\ ncalls = 0

(***************************************************************************)
(* create_company: validation and the INSERT.                              *)
(***************************************************************************)
CreateCompany(p, in) ==
    /\ pc[p] = "idle"
    /\ \E company \in in.create :
        LET c == Call("create_company", 0, company)
            err == CreateValidate(company)
            result == SqlInsert(companies, sqlite_sequence, Trim(company.company_name.v),
                                Trim(company.gst_no.v), Trim(company.state_code.v), now)
        IN  /\ (err = "" /\ result.ok) => result.last_insert_rowid <= MaxId
            /\ IF err # ""
               THEN /\ last' = Last(p, c, Err(err), 0)
                    /\ UNCHANGED <<companies, sqlite_sequence, pc, call, company_id,
                                   wrote, assigned>>
               ELSE IF ~result.ok
               THEN /\ companies' = result.tbl
                    /\ sqlite_sequence' = result.sq
                    /\ last' = Last(p, c, Err("Failed to create company"), 0)
                    /\ UNCHANGED <<pc, call, company_id, wrote, assigned>>
               ELSE /\ companies' = result.tbl
                    /\ sqlite_sequence' = result.sq
                    /\ company_id' = [company_id EXCEPT ![p] = result.last_insert_rowid]
                    /\ assigned' = Append(assigned, result.last_insert_rowid)
                    /\ wrote' = [wrote EXCEPT ![p] = result.last_insert_rowid]
                    /\ call' = [call EXCEPT ![p] = c]
                    /\ pc' = [pc EXCEPT ![p] = "create_fetch"]
                    /\ last' = NoLast
    /\ UNCHANGED <<now, mutated, returned, created>>

(***************************************************************************)
(* create_company: "Fetch the created company" and return it.              *)
(***************************************************************************)
CreateFetch(p) ==
    /\ pc[p] = "create_fetch"
    /\ LET rows == SqlSelectById(companies, company_id[p])
       IN  IF rows = {}
           THEN /\ last' = Last(p, call[p], Err("Company not found after creation"),
                                wrote[p])
                /\ UNCHANGED <<returned, created>>
           ELSE \E c \in rows :
                /\ last' = Last(p, call[p], OkCompany(c), wrote[p])
                /\ returned' = Append(returned, c.id)
                /\ created' = IF c.id \in mutated THEN created
                              ELSE created \cup {[company |-> c, input |-> call[p].company]}
    /\ pc' = [pc EXCEPT ![p] = "idle"]
    /\ call' = [call EXCEPT ![p] = NoCall]
    /\ company_id' = [company_id EXCEPT ![p] = 0]
    /\ wrote' = [wrote EXCEPT ![p] = 0]
    /\ mutated' = mutated \ {company_id[p]}
    /\ UNCHANGED <<companies, sqlite_sequence, now, assigned>>

(***************************************************************************)
(* get_companies.                                                          *)
(***************************************************************************)
GetCompanies(p) ==
    /\ pc[p] = "idle"
    /\ \E l \in SqlSelectOrdered(companies) :
        last' = Last(p, Call("get_companies", 0, NoPayload), OkList(l), 0)
    /\ UNCHANGED <<companies, sqlite_sequence, now, pc, call, company_id, wrote,
                   assigned, mutated, returned, created>>

(***************************************************************************)
(* get_company_by_id, also the tail of update_company.                     *)
(***************************************************************************)
FetchById(tbl, id) ==
    LET rows == SqlSelectById(tbl, id)
    IN  IF rows = {} THEN {Err("Company not found")}
        ELSE {OkCompany(c) : c \in rows}

GetCompanyById(p, in) ==
    /\ pc[p] = "idle"
    /\ \E id \in in.id :
        \E r \in FetchById(companies, id) :
            last' = Last(p, Call("get_company_by_id", id, NoPayload), r, 0)
    /\ UNCHANGED <<companies, sqlite_sequence, now, pc, call, company_id, wrote,
                   assigned, mutated, returned, created>>

(***************************************************************************)
(* update_company: the dynamic update query and the UPDATE.                *)
(***************************************************************************)
UpdateCompany(p, in) ==
    /\ pc[p] = "idle"
    /\ \E company \in in.update, id \in in.id :
        LET c == Call("update_company", id, company)
            err == UpdateValidate(company)
            result == SqlUpdate(companies, id, UpdateParams(company), now)
        IN  IF err # ""
            THEN /\ last' = Last(p, c, Err(err), 0)
                 /\ UNCHANGED <<companies, pc, call, wrote, mutated, created>>
            ELSE IF ~result.ok
            THEN /\ companies' = result.tbl
                 /\ last' = Last(p, c, Err("Failed to update company"), 0)
                 /\ UNCHANGED <<pc, call, wrote, mutated, created>>
            ELSE /\ companies' = result.tbl
                 /\ mutated' = IF result.rows_affected > 0 /\ InFlight(id)
                               THEN mutated \cup {id} ELSE mutated
                 /\ created' = IF result.rows_affected > 0
                               THEN {e \in created : e.company.id # id} ELSE created
                 /\ wrote' = [wrote EXCEPT ![p] =
                                 IF result.rows_affected > 0 THEN id ELSE 0]
                 /\ call' = [call EXCEPT ![p] = c]
                 /\ pc' = [pc EXCEPT ![p] = "update_fetch"]
                 /\ last' = NoLast
    /\ UNCHANGED <<sqlite_sequence, now, company_id, assigned, returned>>

(***************************************************************************)
(* update_company: "Fetch the updated company", get_company_by_id(id).     *)
(***************************************************************************)
UpdateFetch(p) ==
    /\ pc[p] = "update_fetch"
    /\ \E r \in FetchById(companies, call[p].id) :
        last' = Last(p, call[p], r, wrote[p])
    /\ pc' = [pc EXCEPT ![p] = "idle"]
    /\ call' = [call EXCEPT ![p] = NoCall]
    /\ wrote' = [wrote EXCEPT ![p] = 0]
    /\ UNCHANGED <<companies, sqlite_sequence, now, company_id, assigned, mutated,
                   returned, created>>

(***************************************************************************)
(* delete_company.                                                         *)
(***************************************************************************)
DeleteCompany(p, in) ==
    /\ pc[p] = "idle"
    /\ \E id \in in.id :
        LET result == SqlDelete(companies, id)
        IN  /\ companies' = result.tbl
            /\ mutated' = IF result.rows_affected > 0 /\ InFlight(id)
                          THEN mutated \cup {id} ELSE mutated
            /\ created' = {e \in created : e.company.id # id}
            /\ last' = Last(p, Call("delete_company", id, NoPayload), OkUnit,
                            IF result.rows_affected > 0 THEN id ELSE 0)
    /\ UNCHANGED <<sqlite_sequence, now, pc, call, company_id, wrote, assigned, returned>>

(***************************************************************************)
(* The wall clock passes to the next second.                               *)
(***************************************************************************)
Tick ==
    /\ now < MaxTime
    /\ now' = now + 1
    /\ last' = NoLast
    /\ UNCHANGED <<companies, sqlite_sequence, pc, call, company_id, wrote,
                   assigned, mutated, returned, created>>

\* a caller invokes a command
Invoke ==
    /\ ncalls < MaxCalls
    /\ ncalls' = ncalls + 1

(***************************************************************************)
(* Spec: the callers run MaxCalls commands concurrently, within one second *)
(* of the clock.                                                           *)
(***************************************************************************)
Next ==
    \/ \E p \in Callers : Invoke /\ CreateCompany(p, RaceInputs)
    \/ \E p \in Callers : CreateFetch(p) /\ UNCHANGED ncalls
    \/ \E p \in Callers : Invoke /\ GetCompanies(p)
    \/ \E p \in Callers : Invoke /\ GetCompanyById(p, RaceInputs)
    \/ \E p \in Callers : Invoke /\ UpdateCompany(p, RaceInputs)
    \/ \E p \in Callers : UpdateFetch(p) /\ UNCHANGED ncalls
    \/ \E p \in Callers : Invoke /\ DeleteCompany(p, RaceInputs)

Spec == Init /\ [][Next]_vars

(***************************************************************************)
(* SpecSerial: one caller runs MaxCalls commands, one after the other,     *)
(* with arbitrary inputs, while the clock runs.                            *)
(***************************************************************************)
NextSerial ==
    \/ Invoke /\ CreateCompany(1, AnyInputs)
    \/ CreateFetch(1) /\ UNCHANGED ncalls
    \/ Invoke /\ GetCompanies(1)
    \/ Invoke /\ GetCompanyById(1, AnyInputs)
    \/ Invoke /\ UpdateCompany(1, AnyInputs)
    \/ UpdateFetch(1) /\ UNCHANGED ncalls
    \/ Invoke /\ DeleteCompany(1, AnyInputs)
    \/ Tick /\ UNCHANGED ncalls

SpecSerial == Init /\ [][NextSerial]_vars

(***************************************************************************)
(* The kinds of error a command returns.                                   *)
(***************************************************************************)
InvalidFieldErrors ==
    {"Company name is required", "Company name cannot be empty",
     "Company name must be 255 characters or less",
     "GST number is required", "GST number cannot be empty",
     "GST number must be 15 characters and follow GST format",
     "State code is required", "State code cannot be empty"}

ConflictErrors == {"Failed to create company", "Failed to update company"}

NotFoundError == "Company not found"

NoFieldsToUpdateError == "No fields to update"

\* a command returned in the step just taken
Returned(op) == last # NoLast /\ last.call.op = op

NoFieldSupplied(company) ==
    ~company.company_name.some /\ ~company.gst_no.some /\ ~company.state_code.some

(***************************************************************************)
(* C1.  No two stored Company records have the same gst_no, whatever the   *)
(* interleaving of create_company, update_company and delete_company; a    *)
(* create_company whose INSERT fails returns the Conflict error, and then  *)
(* exactly one stored record holds its trimmed gst_no.                     *)
(***************************************************************************)
C1_GstUnique ==
    /\ \A r1, r2 \in companies : r1.gst_no = r2.gst_no => r1 = r2
    /\ (Returned("create_company") /\ last.ret.err \in ConflictErrors) =>
            Cardinality({r \in companies :
                            r.gst_no = Trim(last.call.company.gst_no.v)}) = 1
    /\ (Returned("create_company") /\ ~last.ret.ok
            /\ CreateValidate(last.call.company) = "" /\ last.wrote = 0) =>
            last.ret.err \in ConflictErrors

\* two create_company calls with the same padded gst_no overlap: one has
\* inserted its row and not yet returned, the other has returned Conflict
C1_Witness ==
    /\ Returned("create_company")
    /\ last.ret.err \in ConflictErrors
    /\ last.call.company.gst_no.v # Trim(last.call.company.gst_no.v)
    /\ \E q \in Callers :
        /\ q # last.caller
        /\ pc[q] = "create_fetch"
        /\ Trim(call[q].company.gst_no.v) = Trim(last.call.company.gst_no.v)

(***************************************************************************)
(* C2.  The ids the INSERTs assign are strictly increasing and leave no    *)
(* gap (they are 1, 2, ... in order, also after a delete); concurrent      *)
(* create_company calls hold pairwise distinct ids, and the successful     *)
(* ones return pairwise distinct ids, each the id its INSERT assigned.     *)
(***************************************************************************)
C2_IdentityMonotonic ==
    /\ \A i, j \in 1..Len(assigned) : i < j => assigned[i] < assigned[j]
    /\ {assigned[i] : i \in 1..Len(assigned)} = 1..Len(assigned)
    /\ \A i, j \in 1..Len(returned) : i # j => returned[i] # returned[j]
    /\ \A p, q \in Callers :
        (p # q /\ pc[p] = "create_fetch" /\ pc[q] = "create_fetch") =>
            company_id[p] # company_id[q]
    /\ \A r1, r2 \in companies : r1.id = r2.id => r1 = r2
    /\ (Returned("create_company") /\ last.ret.ok) => last.ret.company.id = last.wrote

\* two create_company calls overlap: the one that inserted second has returned
\* its record, the one that inserted first has not yet
C2_Witness ==
    /\ Returned("create_company")
    /\ last.ret.ok
    /\ \E q \in Callers :
        /\ q # last.caller
        /\ pc[q] = "create_fetch"
        /\ company_id[q] < last.ret.company.id

(***************************************************************************)
(* C3.  The record a successful update_company returns is the record as    *)
(* it stood after that call's own UPDATE: whatever the serial order of the *)
(* calls, when the UPDATE changed a row the record returned holds the      *)
(* trimmed value of every field the call supplied.                         *)
(***************************************************************************)
C3_UpdateReturnsOwnMutation ==
    (Returned("update_company") /\ last.ret.ok /\ last.wrote # 0) =>
        /\ last.call.company.company_name.some =>
            last.ret.company.company_name = Trim(last.call.company.company_name.v)
        /\ last.call.company.gst_no.some =>
            last.ret.company.gst_no = Trim(last.call.company.gst_no.v)
        /\ last.call.company.state_code.some =>
            last.ret.company.state_code = Trim(last.call.company.state_code.v)

(***************************************************************************)
(* C4.  A create_company or update_company that returns an error leaves    *)
(* the table as it was: the step that returns the error changes no row,    *)
(* a validation or Conflict error comes from a call that has written no    *)
(* row, and no stored row carries a write of a call that returns an error. *)
(***************************************************************************)
C4_NoPartialApplication ==
    [][(/\ last' # NoLast
        /\ last'.call.op \in {"create_company", "update_company"}
        /\ ~last'.ret.ok) =>
            /\ companies' = companies
            /\ sqlite_sequence' = sqlite_sequence
            /\ last'.ret.err \in InvalidFieldErrors \cup ConflictErrors
                                    \cup {NoFieldsToUpdateError} => last'.wrote = 0
            /\ last'.wrote = 0 \/ last'.wrote \notin Rowids(companies')]_vars

\* an update_company returned Conflict for its gst_no, and its payload also
\* carried a state_code that differs from the stored one
C4_Witness ==
    /\ Returned("update_company")
    /\ last.ret.err \in ConflictErrors
    /\ last.call.company.state_code.some
    /\ \E r \in companies :
        /\ r.id = last.call.id
        /\ r.state_code # Trim(last.call.company.state_code.v)

(***************************************************************************)
(* C5.  For a row that no UPDATE or DELETE has changed since its INSERT,   *)
(* get_company_by_id returns the record create_company returned, equal in  *)
(* every field; its string fields are the trimmed inputs and its           *)
(* created_at equals its updated_at.                                       *)
(***************************************************************************)
C5_CreateGetRoundTrip ==
    \A e \in created :
        /\ e.company.id # 0
        /\ e.company.company_name = Trim(e.input.company_name.v)
        /\ e.company.gst_no = Trim(e.input.gst_no.v)
        /\ e.company.state_code = Trim(e.input.state_code.v)
        /\ e.company.created_at = e.company.updated_at
        /\ (Returned("get_company_by_id") /\ last.call.id = e.company.id) =>
                last.ret = OkCompany(e.company)

\* get_company_by_id returned the record of a create_company whose gst_no and
\* company_name were padded
C5_Witness ==
    /\ Returned("get_company_by_id")
    /\ last.ret.ok
    /\ \E e \in created :
        /\ e.company.id = last.call.id
        /\ e.input.gst_no.v # e.company.gst_no
        /\ e.input.company_name.v # e.company.company_name

(***************************************************************************)
(* C6.  update_company with no field supplied returns "No fields to        *)
(* update" for every id, in one step that changes no row.                  *)
(***************************************************************************)
C6_NoFieldsToUpdate ==
    [][/\ \A p \in Callers :
            (pc[p] = "idle" /\ pc'[p] = "update_fetch") =>
                ~NoFieldSupplied(call'[p].company)
       /\ (/\ last' # NoLast
           /\ last'.call.op = "update_company"
           /\ NoFieldSupplied(last'.call.company)) =>
                /\ last'.ret = Err(NoFieldsToUpdateError)
                /\ last'.wrote = 0
                /\ companies' = companies]_vars

\* the error was returned for the id of a stored record
C6_Witness ==
    /\ Returned("update_company")
    /\ NoFieldSupplied(last.call.company)
    /\ last.ret.err = NoFieldsToUpdateError
    /\ last.call.id \in Rowids(companies)

(***************************************************************************)
(* C7.  The UPDATE of an update_company that supplies only state_code, on  *)
(* an existing id, leaves the record's id, company_name, gst_no and        *)
(* created_at unchanged, sets state_code to the trimmed value, advances    *)
(* updated_at, and changes no other record.                                *)
(***************************************************************************)
C7_StateCodeOnlyUpdate ==
    [][\A p \in Callers :
        (/\ pc[p] = "idle"
         /\ pc'[p] = "update_fetch"
         /\ ~call'[p].company.company_name.some
         /\ ~call'[p].company.gst_no.some
         /\ call'[p].company.state_code.some
         /\ call'[p].id \in Rowids(companies)) =>
            \E old \in companies, new \in companies' :
                /\ old.id = call'[p].id
                /\ new.id = old.id
                /\ new.company_name = old.company_name
                /\ new.gst_no = old.gst_no
                /\ new.created_at = old.created_at
                /\ new.state_code = Trim(call'[p].company.state_code.v)
                /\ new.updated_at > old.updated_at
                /\ companies' \ {new} = companies \ {old}]_vars

(***************************************************************************)
(* C8.  get_company_by_id, update_company with a valid non-empty payload   *)
(* and delete_company return NotFound for an id no stored record has, and  *)
(* delete_company returns success only when it removed a record.           *)
(***************************************************************************)
C8_MissingIdNotFound ==
    /\ (Returned("get_company_by_id") /\ last.call.id \notin Rowids(companies)) =>
            last.ret = Err(NotFoundError)
    /\ (Returned("update_company") /\ UpdateValidate(last.call.company) = ""
            /\ last.ret.err \notin ConflictErrors /\ last.wrote = 0) =>
            last.ret = Err(NotFoundError)
    /\ Returned("delete_company") => (last.ret.ok <=> last.wrote # 0)

(***************************************************************************)
(* C9.  Every stored company_name, gst_no and state_code is non-empty and  *)
(* has no leading or trailing whitespace, and every stored gst_no is       *)
(* exactly 15 ASCII letters or digits.                                     *)
(***************************************************************************)
Trimmed(s) == s # <<>> /\ ~IsWhitespace(s[1]) /\ ~IsWhitespace(s[Len(s)])

C9_StoredCanonical ==
    \A r \in companies :
        /\ Trimmed(r.company_name)
        /\ Trimmed(r.gst_no)
        /\ Trimmed(r.state_code)
        /\ Len(r.gst_no) = 15
        /\ \A i \in 1..Len(r.gst_no) :
            r.gst_no[i] \in (48..57) \cup (65..90) \cup (97..122)

\* a record created from a padded company_name and gst_no, whose state_code an
\* update_company has set from a padded value
C9_Witness ==
    \E r \in companies :
        /\ r.company_name = NameA
        /\ r.gst_no = Gst1
        /\ r.state_code = State29
        /\ r.updated_at > r.created_at

(***************************************************************************)
(* C10.  get_companies returns every stored record exactly once, ordered   *)
(* by created_at descending, records of equal created_at by id descending. *)
(***************************************************************************)
C10_ListOrder ==
    Returned("get_companies") =>
        /\ Len(last.ret.list) = Cardinality(companies)
        /\ {last.ret.list[i] : i \in 1..Len(last.ret.list)} = companies
        /\ \A i, j \in 1..Len(last.ret.list) :
            i < j =>
                \/ last.ret.list[i].created_at > last.ret.list[j].created_at
                \/ /\ last.ret.list[i].created_at = last.ret.list[j].created_at
                   /\ last.ret.list[i].id > last.ret.list[j].id

====
